---- MODULE Spec2Model ----
(***************************************************************************)
(* Tiered conversational memory of the memory-management chapter          *)
(* (chapter 5 main.go, second program): the Redis-backed ShortTermMemory, *)
(* the Elasticsearch-backed LongTermMemory and the per-turn loop of main. *)
(*                                                                         *)
(* Texts (queries, replies, summaries) are sequences of tokens, so that   *)
(* strings.Contains, strings.TrimPrefix and concatenation are computed.   *)
(* The empty Go string is the empty sequence.                             *)
(***************************************************************************)
EXTENDS Integers, Sequences, FiniteSets, TLC

\* ------------------------------------------------------------------ bounds
MaxWindow == 1      \* maxHistory is drawn from 1..MaxWindow
MaxLog    == 5      \* SpecStore: cap on the messages held by all sessions
MaxTurns  == 2      \* Spec: cap on the number of queries the loop ranges over
MaxDocs   == 6      \* SpecLTM: cap on the documents written to the index
MaxTodos  == 2      \* SpecTodo: cap on the tasks added to the todo list

\* ------------------------------------------------------- program constants
TopK == 5

\* values time.Now().Unix() may return
Times == {1}

sessionID == "demo_session_001"

Sessions == {sessionID, "s2"}

Roles == {"user", "assistant"}

\* the cues main looks for (tokens stand for the Chinese words of the source)
CueJizhu    == <<"jizhu">>                      \* "记住"
CueWode     == <<"wode">>                       \* "我的"
CueQingJizhu == <<"qing", "jizhu">>             \* "请记住"
PrefixQingJizhu == <<"qing", "jizhu", "colon">> \* "请记住："

\* queries the loop may range over (testQueries holds texts of these shapes)
testQueries ==
    { <<"nihao">>,
      <<"wode", "gongzuo">>,
      <<"qing", "jizhu", "colon", "wode", "gongzuo">>,
      <<"qing", "jizhu", "wode", "gongzuo">> }

\* texts the chat model may return as a reply / as a summary
Replies   == { <<"reply">> }
Summaries == { <<"sumA">>, <<"sumB">> }

\* contents an arbitrary caller of AddMessage passes (SpecStore)
Contents == { <<"nihao">> }

VARIABLES
    maxHistory,      \* ShortTermMemory.maxHistory
    redisMessages,   \* Redis list  session:<id>:messages  (JSON values)
    redisSummary,    \* Redis string session:<id>:summary   (<<>> = no key)
    redisAccess,     \* Redis string session:<id>:last_access (<<>> = no key)
    ltmIndex,        \* documents of the Elasticsearch index, in write order
    pc,              \* position of main in the per-turn loop
    turn,            \* number of loop iterations started
    query,           \* loop variable query
    recentMessages,  \* locals of the iteration
    summary,
    longTermInfo,
    response,
    turnSteps,       \* history: the calls made in the current iteration
    sumCalls,        \* history: inputs handed to GenerateSummary
    appended,        \* history: messages of successful AddMessage calls
    lastSaved,       \* history: the last successful SaveSummary of a session
    cleared,         \* history: the ClearHistory that has just succeeded
    failed           \* history: some call made by the loop has failed

\* chapter 11: the Coder -> Reviewer -> Judge graph
VARIABLES
    goalState,       \* the AgentState handed from node to node
    goalNode         \* the node that runs next: "main" before Invoke, "END"
                     \* once the run has returned, "nodeError" and
                     \* "branchError" once it has failed

\* chapter 4: the reflection loop
VARIABLES
    reflState,       \* the ReflectionState of runReflectionLoop
    reflI,           \* loop variable i
    reflPc,          \* position of runReflectionLoop
    reflInput,       \* history: the messages of the last generateChain call
    reflCodes,       \* history: the responses of the generateChain calls
    reflCritiques    \* history: the critiques of the reflectionChain calls

\* chapter 12: the Primary -> Fallback -> Response graph
VARIABLES
    locState,        \* the AgentState handed from node to node
    locNode          \* the node that runs next ("main" before Invoke)

\* part_002: the todo manager tool
VARIABLES
    todoItems,       \* t.todos.Items
    todoResult       \* history: the last call and whether it returned an error

storeVars == <<redisMessages, redisSummary, redisAccess>>
loopVars  == <<pc, turn, query, recentMessages, summary, longTermInfo, response>>
histVars  == <<turnSteps, sumCalls, appended, lastSaved, cleared, failed>>
goalVars  == <<goalState, goalNode>>
reflVars  == <<reflState, reflI, reflPc, reflInput, reflCodes, reflCritiques>>
locVars   == <<locState, locNode>>
todoVars  == <<todoItems, todoResult>>
extVars   == <<goalVars, reflVars, locVars, todoVars>>
memVars == <<maxHistory, redisMessages, redisSummary, redisAccess, ltmIndex,
             pc, turn, query, recentMessages, summary, longTermInfo, response,
             turnSteps, sumCalls, appended, lastSaved, cleared, failed>>
vars == <<memVars, extVars>>
restGoal == <<memVars, reflVars, locVars, todoVars>>
restRefl == <<memVars, goalVars, locVars, todoVars>>
restLoc  == <<memVars, goalVars, reflVars, todoVars>>
restTodo == <<memVars, goalVars, reflVars, locVars>>

\* ---------------------------------------------------------------- strings
\* mutant of Contains: the text must begin with sub
ContainsAsPrefix(s, sub) ==
    Len(s) >= Len(sub) /\ SubSeq(s, 1, Len(sub)) = sub

\* strings.Contains(s, sub)
Contains(s, sub) ==
    \E i \in 1..(Len(s) + 1) :
        /\ i + Len(sub) - 1 <= Len(s)
        /\ SubSeq(s, i, i + Len(sub) - 1) = sub

\* strings.TrimPrefix(s, prefix)
TrimPrefix(s, prefix) ==
    IF Len(s) >= Len(prefix) /\ SubSeq(s, 1, Len(prefix)) = prefix
    THEN SubSeq(s, Len(prefix) + 1, Len(s))
    ELSE s

\* ------------------------------------------------------------------- JSON
\* type Message struct { Role, Content, Time } with its json tags
Message(role, content, time) == [Role |-> role, Content |-> content, Time |-> time]

\* json.Marshal(msg): the object keyed by the struct's json tags
Marshal(msg) ==
    [kind |-> "object", role |-> msg.Role, content |-> msg.Content, time |-> msg.Time]

\* json.Unmarshal(msgJSON, &msg): ok is FALSE for a value that is no object
Unmarshal(js) ==
    IF js.kind = "object"
    THEN [ok |-> TRUE,  msg |-> Message(js.role, js.content, js.time)]
    ELSE [ok |-> FALSE, msg |-> Message("", <<>>, 0)]

\* the decoding loop of GetHistory: undecodable entries are skipped
RECURSIVE DecodeAll(_)
DecodeAll(js) ==
    IF js = <<>> THEN <<>>
    ELSE LET u == Unmarshal(Head(js))
         IN  IF u.ok THEN <<u.msg>> \o DecodeAll(Tail(js))
                     ELSE DecodeAll(Tail(js))

\* ------------------------------------------------------------------ Redis
\* mutant of MessagesKey: the session id is left out of the key
MessagesKeyShared(s) == <<"session", "messages">>

\* fmt.Sprintf("session:%s:messages", sessionID) and the keys of the summary
\* and of the access time
MessagesKey(s) == <<"session", s, "messages">>
SummaryKey(s)  == <<"session", s, "summary">>
AccessKey(s)   == <<"session", s, "last_access">>

\* mutant of RPush: a value already in the list is not added again
RPushUnique(list, value) ==
    IF \E i \in DOMAIN list : list[i] = value THEN list ELSE Append(list, value)

\* mutant of RPush: the list is trimmed to the window when it is written
RPushTrimmed(list, value) ==
    LET l == Append(list, value)
    IN  IF Len(l) > maxHistory * 2 THEN Tail(l) ELSE l

\* mutant of RPush: the value is pushed at the head of the list (LPUSH)
LPush(list, value) == <<value>> \o list

\* RPUSH key value
RPush(list, value) == Append(list, value)

\* LRANGE key 0 -1
LRange(list) == list

\* SET key value
RedisSet(old, value) == <<value>>

\* ------------------------------------------------------- ShortTermMemory
\* mutant of RecentOf: the slice starts one message early
RecentOfOneMore(allMessages) ==
    SubSeq(allMessages, Len(allMessages) - maxHistory * 2, Len(allMessages))

\* mutant of RecentOf: the slice is cut by whole rounds, from the first round
RecentOfWholeRounds(allMessages) ==
    SubSeq(allMessages, 2 * ((Len(allMessages) \div 2) - maxHistory) + 1,
           2 * (Len(allMessages) \div 2))

\* allMessages[len(allMessages)-stm.maxHistory*2:]
RecentOf(allMessages) ==
    SubSeq(allMessages, Len(allMessages) - maxHistory * 2 + 1, Len(allMessages))

\* GetHistory(ctx, sessionID); lrangeOK / getOK: whether the LRANGE and the
\* GET of the summary reach the store.  Returns (messages, summary, err).
GetHistory(s, lrangeOK, getOK) ==
    IF ~lrangeOK
    THEN [messages |-> <<>>, summary |-> <<>>, err |-> TRUE]
    ELSE
      LET allMessages == DecodeAll(LRange(redisMessages[MessagesKey(s)]))
          totalRounds == Len(allMessages) \div 2
      IN  IF totalRounds <= maxHistory
          THEN [messages |-> allMessages, summary |-> <<>>, err |-> FALSE]
          ELSE
            LET recent == RecentOf(allMessages)
            IN  IF ~getOK
                THEN [messages |-> <<>>, summary |-> <<>>, err |-> TRUE]
                ELSE IF redisSummary[SummaryKey(s)] = <<>>
                THEN [messages |-> recent, summary |-> <<>>, err |-> FALSE]
                ELSE [messages |-> recent, summary |-> redisSummary[SummaryKey(s)][1],
                      err |-> FALSE]

\* GetLastAccessTime(ctx, sessionID): (value, err)
GetLastAccessTime(s, getOK) ==
    IF ~getOK THEN [val |-> 0, err |-> TRUE]
    ELSE IF redisAccess[AccessKey(s)] = <<>> THEN [val |-> 0, err |-> FALSE]
    ELSE [val |-> redisAccess[AccessKey(s)][1], err |-> FALSE]

\* the effect of AddMessage on the store and on the history variables
AddMessage(s, role, content, t, ok) ==
    LET msg == Message(role, content, t)
    IN  IF ok
        THEN /\ redisMessages' = [redisMessages EXCEPT ![MessagesKey(s)] = RPush(@, Marshal(msg))]
             /\ appended' = [appended EXCEPT ![s] = Append(@, msg)]
        ELSE UNCHANGED <<redisMessages, appended>>

\* mutant of SaveSummary: the text is appended to the summary already cached
SaveSummaryAppend(s, text, ok) ==
    IF ok
    THEN /\ redisSummary' = [redisSummary EXCEPT ![SummaryKey(s)] =
                                 IF @ = <<>> THEN <<text>> ELSE <<@[1] \o text>>]
         /\ lastSaved' = [lastSaved EXCEPT ![s] =
                              <<[text |-> text, replaced |-> redisSummary[SummaryKey(s)] # <<>>]>>]
    ELSE UNCHANGED <<redisSummary, lastSaved>>

\* the effect of SaveSummary
SaveSummary(s, text, ok) ==
    IF ok
    THEN /\ redisSummary' = [redisSummary EXCEPT ![SummaryKey(s)] = RedisSet(@, text)]
         /\ lastSaved' = [lastSaved EXCEPT ![s] =
                              <<[text |-> text, replaced |-> redisSummary[SummaryKey(s)] # <<>>]>>]
    ELSE UNCHANGED <<redisSummary, lastSaved>>

\* the prompt GenerateSummary builds from oldMessages: one "role: content"
\* line per message
RECURSIVE SummaryPrompt(_)
SummaryPrompt(oldMessages) ==
    IF oldMessages = <<>> THEN <<>>
    ELSE <<Head(oldMessages).Role>> \o Head(oldMessages).Content
         \o SummaryPrompt(Tail(oldMessages))

\* GenerateSummary(ctx, sessionID, llm, oldMessages): llmOK is the outcome of
\* chain.Invoke on SummaryPrompt(oldMessages), text its result, saveOK the
\* outcome of SaveSummary; the summary is saved only when the model answered.
GenerateSummary(s, oldMessages, llmOK, text, saveOK) ==
    IF llmOK
    THEN SaveSummary(s, text, saveOK)
    ELSE UNCHANGED <<redisSummary, lastSaved>>

NotCleared == [sid |-> "", full |-> FALSE]

\* ------------------------------------------------------------------- Init
\* chapter 11: nothing has been invoked, the state is the zero AgentState
InitGoal ==
    /\ goalNode = "main"
    /\ goalState = [UseCase |-> <<>>, Goals |-> <<>>, CurrentCode |-> <<>>,
                    Feedback |-> <<>>, Iteration |-> 0, MaxIterations |-> 0,
                    IsGoalMet |-> FALSE]

\* chapter 4: runReflectionLoop has not been called
InitRefl ==
    /\ reflPc = "main"
    /\ reflI = 0
    /\ reflState = [CurrentCode |-> <<>>, MessageHistory |-> <<>>, Iteration |-> 0]
    /\ reflInput = <<>>
    /\ reflCodes = <<>>
    /\ reflCritiques = <<>>

\* chapter 12: nothing has been invoked, the state is the zero AgentState
InitLoc ==
    /\ locNode = "main"
    /\ locState = [UserQuery |-> <<>>, LocationResult |-> <<>>,
                   PrimaryLocationFailed |-> FALSE, FinalResponse |-> <<>>]

NoCall == [action |-> "", id |-> <<>>, err |-> FALSE]

\* part_002: NewTodoManagerTool, the list is empty
InitTodo ==
    /\ todoItems = <<>>
    /\ todoResult = NoCall

InitExt == InitGoal /\ InitRefl /\ InitLoc /\ InitTodo

Init ==
    /\ InitExt
    /\ maxHistory \in 1..MaxWindow
    /\ redisMessages = [k \in { MessagesKey(s) : s \in Sessions } |-> <<>>]
    /\ redisSummary = [k \in { SummaryKey(s) : s \in Sessions } |-> <<>>]
    /\ redisAccess = [k \in { AccessKey(s) : s \in Sessions } |-> <<>>]
    /\ ltmIndex = <<>>
    /\ pc = "loop"
    /\ turn = 0
    /\ query = <<>>
    /\ recentMessages = <<>>
    /\ summary = <<>>
    /\ longTermInfo = <<>>
    /\ response = <<>>
    /\ turnSteps = <<>>
    /\ sumCalls = <<>>
    /\ appended  = [s \in Sessions |-> <<>>]
    /\ lastSaved = [s \in Sessions |-> <<>>]
    /\ cleared = NotCleared
    /\ failed = FALSE

\* ------------------------------------------- the store under any caller
TotalMessages ==
    LET RECURSIVE Sum(_)
        Sum(S) == IF S = {} THEN 0
                  ELSE LET x == CHOOSE x \in S : TRUE
                       IN  Len(redisMessages[MessagesKey(x)]) + Sum(S \ {x})
    IN  Sum(Sessions)

CallAddMessage ==
    \E s \in Sessions, role \in Roles, content \in Contents,
       t \in Times, ok \in BOOLEAN :
        /\ TotalMessages < MaxLog
        /\ AddMessage(s, role, content, t, ok)
        /\ cleared' = IF ok THEN NotCleared ELSE cleared
        /\ UNCHANGED <<extVars, maxHistory, redisSummary, redisAccess, ltmIndex,
                       loopVars, turnSteps, sumCalls, lastSaved, failed>>

\* GetHistory reads only
CallGetHistory ==
    \E s \in Sessions, lrangeOK \in BOOLEAN, getOK \in BOOLEAN :
        /\ GetHistory(s, lrangeOK, getOK).err \in BOOLEAN
        /\ UNCHANGED vars

CallSaveSummary ==
    \E s \in Sessions, text \in Summaries, ok \in BOOLEAN :
        /\ SaveSummary(s, text, ok)
        /\ cleared' = IF ok THEN NotCleared ELSE cleared
        /\ UNCHANGED <<extVars, maxHistory, redisMessages, redisAccess, ltmIndex,
                       loopVars, turnSteps, sumCalls, appended, failed>>

\* GenerateSummary called on the messages of a session
CallGenerateSummary ==
    \E s \in Sessions, llmOK \in BOOLEAN, text \in Summaries, saveOK \in BOOLEAN :
        /\ GenerateSummary(s, DecodeAll(redisMessages[MessagesKey(s)]), llmOK, text, saveOK)
        /\ cleared' = IF llmOK /\ saveOK THEN NotCleared ELSE cleared
        /\ UNCHANGED <<extVars, maxHistory, redisMessages, redisAccess, ltmIndex,
                       loopVars, turnSteps, sumCalls, appended, failed>>

\* mutant of ClearHistory: the last_access key is left out of the DEL
ClearHistoryKeepsAccess(s, ok) ==
    IF ok
    THEN /\ redisMessages' = [redisMessages EXCEPT ![MessagesKey(s)] = <<>>]
         /\ redisSummary'  = [redisSummary EXCEPT ![SummaryKey(s)] = <<>>]
         /\ UNCHANGED redisAccess
    ELSE UNCHANGED storeVars

\* ClearHistory: one DEL of the three keys
ClearHistory(s, ok) ==
    IF ok
    THEN /\ redisMessages' = [redisMessages EXCEPT ![MessagesKey(s)] = <<>>]
         /\ redisSummary'  = [redisSummary EXCEPT ![SummaryKey(s)] = <<>>]
         /\ redisAccess'   = [redisAccess EXCEPT ![AccessKey(s)] = <<>>]
    ELSE UNCHANGED storeVars

CallClearHistory ==
    \E s \in Sessions, ok \in BOOLEAN :
        /\ ClearHistory(s, ok)
        /\ IF ok
           THEN /\ appended'  = [appended  EXCEPT ![s] = <<>>]
                /\ lastSaved' = [lastSaved EXCEPT ![s] = <<>>]
                /\ cleared' = [sid |-> s,
                                full |-> /\ redisMessages[MessagesKey(s)] # <<>>
                                         /\ redisSummary[SummaryKey(s)] # <<>>
                                         /\ redisAccess[AccessKey(s)] # <<>>]
           ELSE UNCHANGED <<appended, lastSaved, cleared>>
        /\ UNCHANGED <<extVars, maxHistory, ltmIndex, loopVars, turnSteps, sumCalls, failed>>

\* UpdateLastAccessTime: SET with a 30-day time to live
UpdateLastAccessTime(s, t, ok) ==
    IF ok
    THEN redisAccess' = [redisAccess EXCEPT ![AccessKey(s)] = RedisSet(@, t)]
    ELSE UNCHANGED redisAccess

CallUpdateLastAccessTime ==
    \E s \in Sessions, t \in Times, ok \in BOOLEAN :
        /\ UpdateLastAccessTime(s, t, ok)
        /\ cleared' = IF ok THEN NotCleared ELSE cleared
        /\ UNCHANGED <<extVars, maxHistory, redisMessages, redisSummary, ltmIndex,
                       loopVars, turnSteps, sumCalls, appended, lastSaved, failed>>

\* mutant of ExpireAccessTime: the session's messages expire with the key
ExpireSession ==
    \E s \in Sessions :
        /\ redisAccess[AccessKey(s)] # <<>>
        /\ redisAccess' = [redisAccess EXCEPT ![AccessKey(s)] = <<>>]
        /\ redisMessages' = [redisMessages EXCEPT ![MessagesKey(s)] = <<>>]
        /\ UNCHANGED <<extVars, maxHistory, redisSummary, ltmIndex, loopVars, histVars>>

\* the 30-day time to live of the last_access key runs out
ExpireAccessTime ==
    \E s \in Sessions :
        /\ redisAccess[AccessKey(s)] # <<>>
        /\ redisAccess' = [redisAccess EXCEPT ![AccessKey(s)] = <<>>]
        /\ UNCHANGED <<extVars, maxHistory, redisMessages, redisSummary, ltmIndex,
                       loopVars, histVars>>

\* GetLastAccessTime reads only
CallGetLastAccessTime ==
    \E s \in Sessions, getOK \in BOOLEAN :
        /\ GetLastAccessTime(s, getOK).err \in BOOLEAN
        /\ UNCHANGED vars

NextStore ==
    \/ CallAddMessage
    \/ CallGetHistory
    \/ CallSaveSummary
    \/ CallGenerateSummary
    \/ CallClearHistory
    \/ CallUpdateLastAccessTime
    \/ ExpireAccessTime
    \/ CallGetLastAccessTime

SpecStore == Init /\ [][NextStore]_vars

\* ------------------------------------------------------- LongTermMemory
\* the metadata main attaches to a stored fact
FactMetaData(t) == [session_id |-> sessionID, type |-> "user_fact", timestamp |-> t]

\* the Embedding port: the vector of a text (here its length and whether it
\* holds the word "我的"), the same for the same text
Embed(text) == <<Len(text), IF Contains(text, CueWode) THEN 1 ELSE 0>>

\* mutant of Store: the document is written under the session's id, so a
\* later fact replaces the earlier one
StoreUnderSessionID(content, metadata, ok) ==
    IF ok
    THEN ltmIndex' = <<[ID |-> 1, Content |-> content,
                        Vector |-> Embed(content), MetaData |-> metadata]>>
    ELSE UNCHANGED ltmIndex

\* LongTermMemory.Store: the indexer embeds the content and writes one
\* document (content, content_vector, metadata) under a fresh id; ok is
\* FALSE when the embedding or the write fails, and nothing is written then
Store(content, metadata, ok) ==
    IF ok
    THEN ltmIndex' = Append(ltmIndex, [ID |-> Len(ltmIndex) + 1,
                                       Content |-> content,
                                       Vector |-> Embed(content),
                                       MetaData |-> metadata])
    ELSE UNCHANGED ltmIndex

Min(a, b) == IF a < b THEN a ELSE b

\* LongTermMemory.Retrieve: the hits of the hybrid search, at most TopK
\* documents of the index in the order of their score (positions of ltmIndex)
RetrieveResults ==
    LET n == Len(ltmIndex)
    IN  { hits \in UNION { [1..k -> 1..n] : k \in 0..Min(TopK, n) } :
            \A i, j \in DOMAIN hits : i # j => hits[i] # hits[j] }

\* the scores Elasticsearch may give the documents of the index for a query
\* (hybrid of the match on content and the kNN on content_vector)
Scores == 0..2
Scorings == [DOMAIN ltmIndex -> Scores]

\* the document of the set with the highest score, the earliest among equals
Best(sc, set) ==
    CHOOSE i \in set : \A j \in set : sc[i] > sc[j] \/ (sc[i] = sc[j] /\ i <= j)

RECURSIVE Ranked(_, _, _)
Ranked(sc, set, k) ==
    IF k = 0 \/ set = {} THEN <<>>
    ELSE <<Best(sc, set)>> \o Ranked(sc, set \ {Best(sc, set)}, k - 1)

\* the hits of the search response: size TopK, in descending score
SearchHits(sc) == Ranked(sc, DOMAIN ltmIndex, TopK)

\* hit.Score_ of a retrieved document, set by ResultParser with WithScore
ScoreOf(sc, hit) == sc[hit]

\* the Elasticsearch index exists: DropIndex deletes it before
\* NewLongTermMemory, nothing in the program creates it, and Elasticsearch
\* creates it when the first document is written; no document is ever deleted
IndexExists == ltmIndex # <<>>

RECURSIVE Ascending(_)
Ascending(set) ==
    IF set = {} THEN <<>>
    ELSE LET m == CHOOSE i \in set : \A j \in set : i <= j
         IN  <<m>> \o Ascending(set \ {m})

\* mutant of Retrieve: the documents are handed back in the order of writing
RetrieveInWriteOrder(searchOK, hits) ==
    IF searchOK /\ IndexExists
    THEN [docs |-> Ascending({ hits[i] : i \in DOMAIN hits }), err |-> FALSE]
    ELSE [docs |-> <<>>, err |-> TRUE]

\* LongTermMemory.Retrieve(ctx, query): (docs, err). The search of an index
\* that does not exist is answered with index_not_found_exception, an error
\* like that of a cluster that cannot be reached.
Retrieve(searchOK, hits) ==
    IF searchOK /\ IndexExists
    THEN [docs |-> hits, err |-> FALSE]
    ELSE [docs |-> <<>>, err |-> TRUE]

\* the "检索到的相关信息" block main builds from the documents retrieved
LongTermInfoOf(hits) == [i \in DOMAIN hits |-> ltmIndex[hits[i]].Content]

\* ---------------------------------------------------- the loop of main
\* a call made in the iteration: its result and whether main printed its error
StepP(op, ok, reported) == [op |-> op, ok |-> ok, reported |-> reported]
Step(op, ok) == StepP(op, ok, ~ok)

\* the values main hands to conversationChain.Invoke: the summary block (when
\* there is a summary), the recent messages as "role: content" lines, the
\* block of retrieved contents (when there are any) and the query
ShortTermHistoryOf(sum, messages) ==
    (IF sum # <<>> THEN <<"[summary]">> \o sum ELSE <<>>)
    \o <<"[recent]">> \o SummaryPrompt(messages)

RECURSIVE NumberedLines(_)
NumberedLines(contents) ==
    IF contents = <<>> THEN <<>>
    ELSE <<"item">> \o Head(contents) \o NumberedLines(Tail(contents))

LongTermTextOf(contents) ==
    IF contents = <<>> THEN <<>> ELSE <<"[retrieved]">> \o NumberedLines(contents)

Prompt ==
    [short_term_history |-> ShortTermHistoryOf(summary, recentMessages),
     long_term_memory   |-> LongTermTextOf(longTermInfo),
     user_input         |-> query]

\* mutant of NextQuery: the user message is saved as soon as the query arrives
NextQueryPersistFirst ==
    /\ pc = "loop"
    /\ turn < MaxTurns
    /\ \E q \in testQueries, t \in Times :
          /\ query' = q
          /\ AddMessage(sessionID, "user", q, t, TRUE)
    /\ turn' = turn + 1
    /\ pc' = "getHistory"
    /\ recentMessages' = <<>>
    /\ summary' = <<>>
    /\ longTermInfo' = <<>>
    /\ response' = <<>>
    /\ turnSteps' = <<Step("AddMessage", TRUE)>>
    /\ UNCHANGED <<extVars, maxHistory, redisSummary, redisAccess, ltmIndex, sumCalls,
                   lastSaved, cleared, failed>>

\* for i, query := range testQueries
NextQuery ==
    /\ pc = "loop"
    /\ turn < MaxTurns
    /\ \E q \in testQueries : query' = q
    /\ turn' = turn + 1
    /\ pc' = "getHistory"
    /\ recentMessages' = <<>>
    /\ summary' = <<>>
    /\ longTermInfo' = <<>>
    /\ response' = <<>>
    /\ turnSteps' = <<>>
    /\ UNCHANGED <<extVars, maxHistory, storeVars, ltmIndex, sumCalls, appended,
                   lastSaved, cleared, failed>>

\* the range is exhausted
Finish ==
    /\ pc = "loop"
    /\ pc' = "done"
    /\ UNCHANGED <<extVars, maxHistory, storeVars, ltmIndex, turn, query, recentMessages,
                   summary, longTermInfo, response, histVars>>

\* 1. shortTermMemory.GetHistory; on an error the iteration is left (continue)
StepGetHistory ==
    /\ pc = "getHistory"
    /\ \E lrangeOK \in BOOLEAN, getOK \in BOOLEAN :
        LET r == GetHistory(sessionID, lrangeOK, getOK)
        IN  /\ turnSteps' = Append(turnSteps, Step("GetHistory", ~r.err))
            /\ failed' = (failed \/ r.err)
            /\ IF r.err
               THEN /\ pc' = "loop"
                    /\ UNCHANGED <<recentMessages, summary>>
               ELSE /\ pc' = "retrieve"
                    /\ recentMessages' = r.messages
                    /\ summary' = r.summary
    /\ UNCHANGED <<extVars, maxHistory, storeVars, ltmIndex, turn, query, longTermInfo,
                   response, sumCalls, appended, lastSaved, cleared>>

\* 2. longTermMemory.Retrieve when the query holds "记住" or "我的"; its
\* error is tested (err == nil && len(docs) > 0) and never printed
StepRetrieve ==
    /\ pc = "retrieve"
    /\ IF Contains(query, CueJizhu) \/ Contains(query, CueWode)
       THEN \E searchOK \in BOOLEAN, hits \in RetrieveResults :
              LET r == Retrieve(searchOK, hits)
              IN  /\ turnSteps' = Append(turnSteps, StepP("Retrieve", ~r.err, FALSE))
                  /\ failed' = (failed \/ r.err)
                  /\ longTermInfo' = IF ~r.err THEN LongTermInfoOf(r.docs) ELSE <<>>
       ELSE UNCHANGED <<turnSteps, failed, longTermInfo>>
    /\ pc' = "generate"
    /\ UNCHANGED <<extVars, maxHistory, storeVars, ltmIndex, turn, query, recentMessages,
                   summary, response, sumCalls, appended, lastSaved, cleared>>

\* mutant of StepGenerate: the user message is saved before the model is called
StepGeneratePersistFirst ==
    /\ pc = "generate"
    /\ \E ok \in BOOLEAN, text \in Replies, t \in Times :
        /\ AddMessage(sessionID, "user", query, t, TRUE)
        /\ turnSteps' = Append(turnSteps, Step("Invoke", ok))
        /\ failed' = (failed \/ ~ok)
        /\ IF ok
           THEN /\ response' = text
                /\ pc' = "addUser"
           ELSE /\ pc' = "loop"
                /\ UNCHANGED response
    /\ UNCHANGED <<extVars, maxHistory, redisSummary, redisAccess, ltmIndex, turn, query,
                   recentMessages, summary, longTermInfo, sumCalls, lastSaved,
                   cleared>>

\* 3. conversationChain.Invoke; on an error the iteration is left (continue)
StepGenerate ==
    /\ pc = "generate"
    /\ \E ok \in BOOLEAN, text \in Replies :
        /\ turnSteps' = Append(turnSteps, Step("Invoke", ok))
        /\ failed' = (failed \/ ~ok)
        /\ IF ok
           THEN /\ response' = text
                /\ pc' = "addUser"
           ELSE /\ pc' = "loop"
                /\ UNCHANGED response
    /\ UNCHANGED <<extVars, maxHistory, storeVars, ltmIndex, turn, query, recentMessages,
                   summary, longTermInfo, sumCalls, appended, lastSaved, cleared>>

\* 4. AddMessage(ctx, sessionID, "user", query); an error is only printed
StepAddUser ==
    /\ pc = "addUser"
    /\ \E t \in Times, ok \in BOOLEAN :
        /\ AddMessage(sessionID, "user", query, t, ok)
        /\ turnSteps' = Append(turnSteps, Step("AddMessage", ok))
        /\ failed' = (failed \/ ~ok)
    /\ pc' = "addAssistant"
    /\ UNCHANGED <<extVars, maxHistory, redisSummary, redisAccess, ltmIndex, turn, query,
                   recentMessages, summary, longTermInfo, response, sumCalls,
                   lastSaved, cleared>>

\* 4. AddMessage(ctx, sessionID, "assistant", response); an error is only printed
StepAddAssistant ==
    /\ pc = "addAssistant"
    /\ \E t \in Times, ok \in BOOLEAN :
        /\ AddMessage(sessionID, "assistant", response, t, ok)
        /\ turnSteps' = Append(turnSteps, Step("AddMessage", ok))
        /\ failed' = (failed \/ ~ok)
    /\ pc' = "sumCheck"
    /\ UNCHANGED <<extVars, maxHistory, redisSummary, redisAccess, ltmIndex, turn, query,
                   recentMessages, summary, longTermInfo, response, sumCalls,
                   lastSaved, cleared>>

\* 5. allMessages, _, _ := GetHistory(...): the messages GetHistory returns
\* (its error is dropped); when they hold more than maxHistory rounds,
\* GenerateSummary runs on allMessages[:len(allMessages)-maxHistory*2]
StepSummarize ==
    /\ pc = "sumCheck"
    /\ \E lrangeOK \in BOOLEAN, getOK \in BOOLEAN, llmOK \in BOOLEAN,
          text \in Summaries, saveOK \in BOOLEAN :
        LET r == GetHistory(sessionID, lrangeOK, getOK)
            allMessages == r.messages
            totalRounds == Len(allMessages) \div 2
            oldMessages == SubSeq(allMessages, 1,
                                  Len(allMessages) - maxHistory * 2)
            \* position in the stored log of the first message of allMessages
            offset == Len(DecodeAll(redisMessages[MessagesKey(sessionID)])) - Len(allMessages)
        IN  IF totalRounds > maxHistory
            THEN /\ GenerateSummary(sessionID, oldMessages, llmOK, text, saveOK)
                 /\ sumCalls' = Append(sumCalls,
                        [turn |-> turn, input |-> oldMessages,
                         prompt |-> SummaryPrompt(oldMessages),
                         first |-> offset + 1,
                         last |-> offset + Len(oldMessages),
                         before |-> redisSummary[SummaryKey(sessionID)],
                         ok |-> llmOK /\ saveOK])
                 /\ turnSteps' = turnSteps \o
                        << StepP("GetHistory", ~r.err, FALSE),
                           Step("GenerateSummary", llmOK /\ saveOK) >>
                 /\ failed' = (failed \/ r.err \/ ~llmOK \/ ~saveOK)
            ELSE \* no call of the model: its outcomes are not drawn
                 /\ text = CHOOSE x \in Summaries : TRUE
                 /\ llmOK /\ saveOK
                 /\ turnSteps' = Append(turnSteps, StepP("GetHistory", ~r.err, FALSE))
                 /\ failed' = (failed \/ r.err)
                 /\ UNCHANGED <<redisSummary, lastSaved, sumCalls>>
    /\ pc' = "store"
    /\ UNCHANGED <<extVars, maxHistory, redisMessages, redisAccess, ltmIndex, turn, query,
                   recentMessages, summary, longTermInfo, response, appended,
                   cleared>>

\* mutant of StepStore: the error of Store is dropped without a message
StepStoreSilent ==
    /\ pc = "store"
    /\ IF Contains(query, CueQingJizhu)
       THEN \E t \in Times, embedOK \in BOOLEAN, writeOK \in BOOLEAN :
              LET ok == embedOK /\ writeOK
              IN  /\ Store(TrimPrefix(query, PrefixQingJizhu), FactMetaData(t), ok)
                  /\ turnSteps' = Append(turnSteps, StepP("Store", ok, FALSE))
                  /\ failed' = (failed \/ ~ok)
       ELSE UNCHANGED <<ltmIndex, turnSteps, failed>>
    /\ pc' = "loop"
    /\ UNCHANGED <<extVars, maxHistory, storeVars, turn, query, recentMessages, summary,
                   longTermInfo, response, sumCalls, appended, lastSaved, cleared>>

\* 6. longTermMemory.Store when the query holds "请记住"
StepStore ==
    /\ pc = "store"
    /\ IF Contains(query, CueQingJizhu)
       THEN \E t \in Times, embedOK \in BOOLEAN, writeOK \in BOOLEAN :
              LET ok == embedOK /\ writeOK
              IN  /\ Store(TrimPrefix(query, PrefixQingJizhu), FactMetaData(t), ok)
                  /\ turnSteps' = Append(turnSteps, Step("Store", ok))
                  /\ failed' = (failed \/ ~ok)
       ELSE UNCHANGED <<ltmIndex, turnSteps, failed>>
    /\ pc' = "loop"
    /\ UNCHANGED <<extVars, maxHistory, storeVars, turn, query, recentMessages, summary,
                   longTermInfo, response, sumCalls, appended, lastSaved, cleared>>

Next ==
    \/ NextQuery
    \/ Finish
    \/ StepGetHistory
    \/ StepRetrieve
    \/ StepGenerate
    \/ StepAddUser
    \/ StepAddAssistant
    \/ StepSummarize
    \/ StepStore

Spec == Init /\ [][Next]_vars

\* ------------------------------------- turns of one session side by side
\* The loop of main runs its turns one after another; ShortTermMemory holds
\* no state of its own besides the Redis client, so turns of one session may
\* also run side by side (one goroutine or process each) on the same keys.
\* Here pc, query, response and turnSteps hold one value per turn.
Turns == 1..MaxTurns

TurnQueries == << <<"q1">>, <<"q2">>, <<"q3">> >>
TurnReplies == << <<"r1">>, <<"r2">>, <<"r3">> >>

InitTurns ==
    /\ InitExt
    /\ maxHistory \in 1..MaxWindow
    /\ redisMessages = [k \in { MessagesKey(s) : s \in Sessions } |-> <<>>]
    /\ redisSummary = [k \in { SummaryKey(s) : s \in Sessions } |-> <<>>]
    /\ redisAccess = [k \in { AccessKey(s) : s \in Sessions } |-> <<>>]
    /\ ltmIndex = <<>>
    /\ pc = [p \in Turns |-> "addUser"]
    /\ turn = 0
    /\ query = [p \in Turns |-> TurnQueries[p]]
    /\ recentMessages = <<>>
    /\ summary = <<>>
    /\ longTermInfo = <<>>
    /\ response = [p \in Turns |-> TurnReplies[p]]
    /\ turnSteps = [p \in Turns |-> <<>>]
    /\ sumCalls = <<>>
    /\ appended  = [s \in Sessions |-> <<>>]
    /\ lastSaved = [s \in Sessions |-> <<>>]
    /\ cleared = NotCleared
    /\ failed = FALSE

\* 4. AddMessage(ctx, sessionID, "user", query) of turn p: one RPUSH
TurnAddUser(p) ==
    /\ pc[p] = "addUser"
    /\ \E ok \in BOOLEAN, t \in Times :
          /\ AddMessage(sessionID, "user", query[p], t, ok)
          /\ turnSteps' = [turnSteps EXCEPT ![p] = Append(@, Step("AddMessage", ok))]
    /\ pc' = [pc EXCEPT ![p] = "addAssistant"]
    /\ UNCHANGED <<extVars, maxHistory, redisSummary, redisAccess, ltmIndex, turn, query,
                   recentMessages, summary, longTermInfo, response, sumCalls,
                   lastSaved, cleared, failed>>

\* 4. AddMessage(ctx, sessionID, "assistant", response) of turn p: one RPUSH
TurnAddAssistant(p) ==
    /\ pc[p] = "addAssistant"
    /\ \E ok \in BOOLEAN, t \in Times :
          /\ AddMessage(sessionID, "assistant", response[p], t, ok)
          /\ turnSteps' = [turnSteps EXCEPT ![p] = Append(@, Step("AddMessage", ok))]
    /\ pc' = [pc EXCEPT ![p] = "done"]
    /\ UNCHANGED <<extVars, maxHistory, redisSummary, redisAccess, ltmIndex, turn, query,
                   recentMessages, summary, longTermInfo, response, sumCalls,
                   lastSaved, cleared, failed>>

\* turn p ends between its two AddMessage calls (its process is stopped)
TurnStop(p) ==
    /\ pc[p] = "addAssistant"
    /\ pc' = [pc EXCEPT ![p] = "stopped"]
    /\ UNCHANGED <<extVars, maxHistory, storeVars, ltmIndex, turn, query, recentMessages,
                   summary, longTermInfo, response, histVars>>

NextTurns ==
    \E p \in Turns :
        \/ TurnAddUser(p)
        \/ TurnAddAssistant(p)
        \/ TurnStop(p)

SpecTurns == InitTurns /\ [][NextTurns]_vars

\* ------------------------------------ the long-term memory under any caller
Facts == { <<"wode", "gongzuo">>, <<"nihao">> }

CallStore ==
    \E content \in Facts, t \in Times, ok \in BOOLEAN :
        /\ Len(ltmIndex) < MaxDocs
        /\ Store(content, FactMetaData(t), ok)
        /\ UNCHANGED <<extVars, maxHistory, storeVars, loopVars, histVars>>

\* Retrieve reads only
CallRetrieve ==
    \E searchOK \in BOOLEAN, sc \in Scorings :
        /\ Retrieve(searchOK, SearchHits(sc)).err \in BOOLEAN
        /\ UNCHANGED vars

NextLTM ==
    \/ CallStore
    \/ CallRetrieve

SpecLTM == Init /\ [][NextLTM]_vars

\* ----------------------------------------- chapter 11: goals and monitoring
\* main builds the initial AgentState of its example task and invokes the
\* graph START -> Coder -> Reviewer -> Judge.  A text is a
\* sequence of lines, a one-line model reply a sequence of words.
MaxIterations == 5

\* the example task of main and its goals, split at the commas
useCase == <<"binary gap">>
goals == << <<"simple">>, <<"correct">>, <<"edge cases">> >>

CoderReplies ==
    { <<"~~~go", "package main", "~~~">>, <<"package main">>,
      <<"package main", "func main">>, <<"~~~", "func gap">>,
      <<"func gap", "~~~">>, <<"func gap", "return">>, <<>> }
ReviewerReplies ==
    { <<"no tests">>, <<"looks fine">>, <<"handle errors">>,
      <<"rejects zero">>, <<>> }
JudgeReplies == { <<"True">>, <<" ", "true", ".">>, <<"False">>,
                  <<"true", "but", "untested">> }

\* strings.HasPrefix(strings.TrimSpace(line), fence): the code fence of three
\* backquotes is written ~~~
IsFence(line) == line \in { "~~~", "~~~go" }

cleanCodeBlock(code) ==
    LET lines == IF code # <<>> /\ IsFence(code[1]) THEN Tail(code) ELSE code
    IN  IF lines # <<>> /\ lines[Len(lines)] = "~~~"
        THEN SubSeq(lines, 1, Len(lines) - 1)
        ELSE lines

ToLower(w) == IF w = "True" THEN "true" ELSE IF w = "False" THEN "false" ELSE w

RECURSIVE TrimLeft(_, _)
TrimLeft(ws, cutset) ==
    IF ws # <<>> /\ ws[1] \in cutset THEN TrimLeft(Tail(ws), cutset) ELSE ws

RECURSIVE TrimRight(_, _)
TrimRight(ws, cutset) ==
    IF ws # <<>> /\ ws[Len(ws)] \in cutset
    THEN TrimRight(SubSeq(ws, 1, Len(ws) - 1), cutset)
    ELSE ws

\* strings.Trim(s, cutset)
Trim(ws, cutset) == TrimRight(TrimLeft(ws, cutset), cutset)

\* strings.TrimSpace(s)
TrimSpace(ws) == Trim(ws, { " " })

\* the cutset of parseBoolFromLLM (the three quote characters are written
\* as words)
TrimSet == { ".", "!", "dquote", "quote", "backquote", " " }

parseBoolFromLLM(s) ==
    Trim(TrimSpace([i \in DOMAIN s |-> ToLower(s[i])]), TrimSet) = <<"true">>

initialState ==
    [UseCase |-> useCase, Goals |-> goals, CurrentCode |-> <<>>,
     Feedback |-> <<>>, Iteration |-> 0, MaxIterations |-> MaxIterations,
     IsGoalMet |-> FALSE]

\* the edges added with AddEdge
GraphEdges == { <<"START", "Coder">>, <<"Coder", "Reviewer">>,
                <<"Reviewer", "Judge">>, <<"Judge", "END">> }

\* the condition of the branch added to Judge
judgeBranch(state) ==
    IF state.IsGoalMet THEN "END"
    ELSE IF state.Iteration >= state.MaxIterations THEN "END"
    ELSE "Coder"

\* the end nodes the branch declares
judgeBranchEndNodes == { "Coder", "Reviewer", "Judge" }

EdgeTargets(node) == { e[2] : e \in { d \in GraphEdges : d[1] = node } }

\* The node that runs after node has returned state.  The graph engine
\* passes the output along every edge of the node and to the node its branch
\* selects; a branch that selects a node outside its declared end nodes
\* fails the run, and a run whose next nodes include END returns.
Route(node, state) ==
    LET chosen == IF node = "Judge" THEN { judgeBranch(state) } ELSE {}
        next   == EdgeTargets(node) \cup chosen
    IN  IF chosen \ judgeBranchEndNodes # {} THEN "branchError"
        ELSE IF "END" \in next THEN "END"
        ELSE CHOOSE n \in next : TRUE

InvokeGoal ==
    /\ goalNode = "main"
    /\ goalState' = initialState
    /\ goalNode' = Route("START", goalState')
    /\ UNCHANGED restGoal

coderNode ==
    /\ goalNode = "Coder"
    /\ \E ok \in BOOLEAN, resp \in CoderReplies :
          LET state == [goalState EXCEPT !.Iteration = @ + 1]
          IN  IF ~ok
              THEN /\ goalState' = state
                   /\ goalNode' = "nodeError"
              ELSE /\ goalState' =
                          [state EXCEPT !.CurrentCode = cleanCodeBlock(resp)]
                   /\ goalNode' = Route("Coder", goalState')
    /\ UNCHANGED restGoal

reviewerNode ==
    /\ goalNode = "Reviewer"
    /\ \E ok \in BOOLEAN, resp \in ReviewerReplies :
          IF ~ok
          THEN /\ goalState' = goalState
               /\ goalNode' = "nodeError"
          ELSE /\ goalState' = [goalState EXCEPT !.Feedback = resp]
               /\ goalNode' = Route("Reviewer", goalState')
    /\ UNCHANGED restGoal

judgeNode ==
    /\ goalNode = "Judge"
    /\ \E ok \in BOOLEAN, resp \in JudgeReplies :
          IF ~ok
          THEN /\ goalState' = goalState
               /\ goalNode' = "nodeError"
          ELSE /\ goalState' =
                      [goalState EXCEPT !.IsGoalMet = parseBoolFromLLM(resp)]
               /\ goalNode' = Route("Judge", goalState')
    /\ UNCHANGED restGoal

NextGoal ==
    \/ InvokeGoal
    \/ coderNode
    \/ reviewerNode
    \/ judgeNode

InitGoalRun == Init /\ maxHistory = 1

SpecGoal == InitGoalRun /\ [][NextGoal]_vars

\* ------------------------------------------------- chapter 4: reflection
\* runReflectionLoop generates code, has it criticised and refines it.
maxIterations == 3

taskPrompt == <<"write calculate_factorial">>

GenerateReplies == { <<"def f">>, <<"def f", "raise">> }
CritiqueReplies == { <<"CODE_IS_PERFECT">>, <<"add", "docstring">>,
                     <<"handle", "negatives">>,
                     <<"fine", "CODE_IS_PERFECT", "done">> }

ChatMessage(role, content) == [Role |-> role, Content |-> content]
UserMessage(content) == ChatMessage("user", content)

\* the instruction added to the history of a refinement call
improveMessage == UserMessage(<<"refine with the critique">>)

\* fmt.Sprintf of the critique message
critiqueMessage(critique) == UserMessage(<<"critique:">> \o critique)

\* mutant of StopCondition: no critique stops the loop
StopConditionNever(critique) == FALSE

\* strings.Contains(critique, "CODE_IS_PERFECT")
StopCondition(critique) == Contains(critique, <<"CODE_IS_PERFECT">>)

StartReflection ==
    /\ reflPc = "main"
    /\ reflState' = [CurrentCode |-> <<>>,
                     MessageHistory |-> <<UserMessage(taskPrompt)>>,
                     Iteration |-> 0]
    /\ reflI' = 0
    /\ reflPc' = IF 0 < maxIterations THEN "generate" ELSE "done"
    /\ UNCHANGED <<reflInput, reflCodes, reflCritiques>>
    /\ UNCHANGED restRefl

\* phase 1 of an iteration: generate or refine, then record the code
Generate ==
    /\ reflPc = "generate"
    /\ reflInput' = IF reflI = 0
                    THEN reflState.MessageHistory
                    ELSE Append(reflState.MessageHistory, improveMessage)
    /\ \E ok \in BOOLEAN, resp \in GenerateReplies :
          IF ~ok
          THEN /\ reflState' = [reflState EXCEPT !.Iteration = reflI + 1]
               /\ reflPc' = "error"
               /\ UNCHANGED reflCodes
          ELSE /\ reflState' =
                      [reflState EXCEPT
                          !.Iteration = reflI + 1,
                          !.CurrentCode = resp,
                          !.MessageHistory =
                              Append(@, ChatMessage("assistant", resp))]
               /\ reflPc' = "reflect"
               /\ reflCodes' = Append(reflCodes, resp)
    /\ UNCHANGED <<reflI, reflCritiques>>
    /\ UNCHANGED restRefl

\* phases 2 and 3: the critique and the stop condition
Reflect ==
    /\ reflPc = "reflect"
    /\ \E ok \in BOOLEAN, critique \in CritiqueReplies :
          IF ~ok
          THEN /\ reflPc' = "error"
               /\ UNCHANGED <<reflState, reflI, reflCritiques>>
          ELSE /\ reflCritiques' = Append(reflCritiques, critique)
               /\ IF StopCondition(critique)
                  THEN /\ reflPc' = "done"
                       /\ UNCHANGED <<reflState, reflI>>
                  ELSE /\ reflState' =
                              [reflState EXCEPT !.MessageHistory =
                                  Append(@, critiqueMessage(critique))]
                       /\ reflI' = reflI + 1
                       /\ reflPc' = IF reflI + 1 < maxIterations
                                    THEN "generate"
                                    ELSE "done"
    /\ UNCHANGED <<reflInput, reflCodes>>
    /\ UNCHANGED restRefl

NextRefl ==
    \/ StartReflection
    \/ Generate
    \/ Reflect

InitReflRun == Init /\ maxHistory = 1

SpecRefl == InitReflRun /\ [][NextRefl]_vars

\* ------------------------------------- chapter 12: handling and recovery
\* main invokes the graph START -> PrimaryHandler -> FallbackHandler ->
\* ResponseAgent -> END on its two example queries.
UserQueries == { <<"cafe", "in", "San Francisco">>,
                 <<"locate", "123", "Market", "Street", "San Francisco">> }
PrimaryReplies == { <<"FAIL">>, <<" ", "FAIL", " ">>, <<>>, <<"San Francisco">>,
                    <<"123", "Market", "Street">>, <<"Nanjing", "lu", " ">>,
                    <<"Street">>, <<" ", "1", "Main", "Street">> }
FallbackReplies == { <<"San Francisco">>, <<>>, <<" ", "Oakland">>,
                     <<"Bay", "Area">> }
ResponseReplies == { <<"here it is">>, <<"sorry">>, <<"found", "it">>, <<>> }

getPreciseLocationInfo(address) ==
    IF Contains(address, <<"Street">>) \/ Contains(address, <<"lu">>)
    THEN [info |-> <<"lat", "lng", "address">> \o address
                   \o <<"precision", "high">>,
          success |-> TRUE]
    ELSE [info |-> <<>>, success |-> FALSE]

\* mutant of getGeneralAreaInfo: no information about an unnamed city
getGeneralAreaInfoNamed(city) ==
    IF city = <<>> THEN <<>>
    ELSE <<"city">> \o city \o <<"region_code", "US-CA", "description">> \o city

getGeneralAreaInfo(city) ==
    <<"city">> \o city \o <<"region_code", "US-CA", "description">> \o city

LocEdges == { <<"START", "PrimaryHandler">>,
              <<"PrimaryHandler", "FallbackHandler">>,
              <<"FallbackHandler", "ResponseAgent">>,
              <<"ResponseAgent", "END">> }

\* the node the single edge of node leads to
LocRoute(node) == CHOOSE n \in { e[2] : e \in { d \in LocEdges : d[1] = node } } : TRUE

InvokeLoc ==
    /\ locNode \in { "main", "END", "nodeError" }
    /\ \E q \in UserQueries :
          locState' = [UserQuery |-> q, LocationResult |-> <<>>,
                       PrimaryLocationFailed |-> FALSE, FinalResponse |-> <<>>]
    /\ locNode' = LocRoute("START")
    /\ UNCHANGED restLoc

primaryNode ==
    /\ locNode = "PrimaryHandler"
    /\ \E ok \in BOOLEAN, resp \in PrimaryReplies :
          IF ~ok
          THEN /\ locNode' = "nodeError"
               /\ UNCHANGED locState
          ELSE LET address == TrimSpace(resp)
                   tool    == getPreciseLocationInfo(address)
               IN  /\ locState' =
                          IF address = <<"FAIL">>
                          THEN [locState EXCEPT !.PrimaryLocationFailed = TRUE]
                          ELSE IF tool.success
                          THEN [locState EXCEPT
                                   !.LocationResult = tool.info,
                                   !.PrimaryLocationFailed = FALSE]
                          ELSE [locState EXCEPT !.PrimaryLocationFailed = TRUE]
                   /\ locNode' = LocRoute("PrimaryHandler")
    /\ UNCHANGED restLoc

fallbackNode ==
    /\ locNode = "FallbackHandler"
    /\ IF ~locState.PrimaryLocationFailed
       THEN /\ locNode' = LocRoute("FallbackHandler")
            /\ UNCHANGED locState
       ELSE \E ok \in BOOLEAN, resp \in FallbackReplies :
               IF ~ok
               THEN /\ locNode' = "nodeError"
                    /\ UNCHANGED locState
               ELSE /\ locState' =
                           [locState EXCEPT !.LocationResult =
                               getGeneralAreaInfo(TrimSpace(resp))]
                    /\ locNode' = LocRoute("FallbackHandler")
    /\ UNCHANGED restLoc

responseNode ==
    /\ locNode = "ResponseAgent"
    /\ \E ok \in BOOLEAN, resp \in ResponseReplies :
          IF ~ok
          THEN /\ locNode' = "nodeError"
               /\ UNCHANGED locState
          ELSE /\ locState' = [locState EXCEPT !.FinalResponse = resp]
               /\ locNode' = LocRoute("ResponseAgent")
    /\ UNCHANGED restLoc

NextLoc ==
    \/ InvokeLoc
    \/ primaryNode
    \/ fallbackNode
    \/ responseNode

InitLocRun == Init /\ maxHistory = 1

SpecLoc == InitLocRun /\ [][NextLoc]_vars

\* ------------------------------------------- part_002: the todo manager
\* The planner and the agent drive one TodoManagerTool through InvokableRun,
\* one call after the other.  args is what json.Unmarshal made of the
\* arguments; valid is FALSE for arguments that do not parse.
TodoIDs == { <<"todo", n>> : n \in 1..(MaxTodos + 1) } \cup { <<>> }
TodoStatuses == { "", "pending", "in_progress", "done" }
TodoResults == { <<>>, <<"ok">> }

NoArgs == [valid |-> TRUE, Action |-> "", ID |-> <<>>, Title |-> <<>>,
           Description |-> <<>>, Status |-> "", Result |-> <<>>]

\* the arguments of a call; the fields an action does not read are left out
TodoArgs ==
    { [NoArgs EXCEPT !.valid = FALSE],
      [NoArgs EXCEPT !.Action = "add", !.Title = <<"design">>,
                     !.Description = <<"draw the screens">>],
      [NoArgs EXCEPT !.Action = "list"],
      [NoArgs EXCEPT !.Action = "remove", !.ID = <<"todo", 1>>] }
    \cup { [NoArgs EXCEPT !.Action = "update", !.ID = id, !.Status = st] :
               id \in TodoIDs, st \in TodoStatuses }
    \cup { [NoArgs EXCEPT !.Action = "complete", !.ID = id, !.Result = res] :
               id \in TodoIDs, res \in TodoResults }

\* mutant of NewID: every task gets the first id
NewIDFirst(items) == <<"todo", 1>>

\* fmt.Sprintf("todo-%d", len(t.todos.Items)+1)
NewID(items) == <<"todo", Len(items) + 1>>

\* the first item with the id, 0 when there is none
FindItem(items, id) ==
    IF \E i \in DOMAIN items : items[i].ID = id
    THEN CHOOSE i \in DOMAIN items :
            /\ items[i].ID = id
            /\ \A j \in 1..(i - 1) : items[j].ID # id
    ELSE 0

\* the list after the call and whether the call returned an error
InvokableRun(items, args, now) ==
    IF ~args.valid THEN [items |-> items, err |-> TRUE]
    ELSE IF args.Action = "add"
    THEN [items |-> Append(items,
                       [ID |-> NewID(items), Title |-> args.Title,
                        Description |-> args.Description, Status |-> "pending",
                        CreatedAt |-> now, CompletedAt |-> 0, Result |-> <<>>]),
          err |-> FALSE]
    ELSE IF args.Action = "update"
    THEN LET i == FindItem(items, args.ID)
         IN  IF i = 0 THEN [items |-> items, err |-> TRUE]
             ELSE [items |-> IF args.Status # ""
                             THEN [items EXCEPT ![i].Status = args.Status]
                             ELSE items,
                   err |-> FALSE]
    ELSE IF args.Action = "complete"
    THEN LET i == FindItem(items, args.ID)
         IN  IF i = 0 THEN [items |-> items, err |-> TRUE]
             ELSE [items |-> [items EXCEPT
                                 ![i].Status = "completed",
                                 ![i].CompletedAt = now,
                                 ![i].Result = IF args.Result # <<>>
                                               THEN args.Result ELSE @],
                   err |-> FALSE]
    ELSE IF args.Action = "list"
    THEN [items |-> items, err |-> FALSE]
    ELSE [items |-> items, err |-> TRUE]

CallTodo ==
    /\ \E args \in TodoArgs, now \in Times :
          /\ (args.valid /\ args.Action = "add") => Len(todoItems) < MaxTodos
          /\ LET r == InvokableRun(todoItems, args, now)
             IN  /\ todoItems' = r.items
                 /\ todoResult' = [action |-> IF args.valid THEN args.Action
                                              ELSE "",
                                   id |-> args.ID, err |-> r.err]
    /\ UNCHANGED restTodo

NextTodo == CallTodo

InitTodoRun == Init /\ maxHistory = 1

SpecTodo == InitTodoRun /\ [][NextTodo]_vars

\* ================================================================ claims
\* the full log of a session, as the successful AddMessage calls built it
LogOf(s) == appended[s]
RoundsOf(s) == Len(LogOf(s)) \div 2
Read(s) == GetHistory(s, TRUE, TRUE)
Suffix(sq, n) == SubSeq(sq, Len(sq) - n + 1, Len(sq))
IsSuffixOf(a, b) == Len(a) <= Len(b) /\ a = Suffix(b, Len(a))

\* C1: for every session, with N = (messages added) / 2, GetHistory returns
\* the whole log when N <= W and exactly the last 2*W messages, in order,
\* when N > W.
C1_Window ==
    \A s \in Sessions :
        /\ ~Read(s).err
        /\ IF RoundsOf(s) > maxHistory
           THEN /\ Len(Read(s).messages) = 2 * maxHistory
                /\ Read(s).messages = Suffix(LogOf(s), 2 * maxHistory)
           ELSE Read(s).messages = LogOf(s)

\* a session holds more rounds than the window and its oldest message
\* differs from every message GetHistory returns
C1_Witness ==
    \E s \in Sessions :
        /\ RoundsOf(s) > maxHistory
        /\ \A i \in DOMAIN Read(s).messages : Read(s).messages[i] # LogOf(s)[1]

\* C2: in the loop, when no call has failed, after every turn that leaves
\* N > W rounds GetHistory returns a non-empty summary with exactly the last
\* W rounds, and that summary was computed from rounds 1..N-W.
C2_SummaryAfterWindow ==
    (pc = "loop" /\ ~failed /\ RoundsOf(sessionID) > maxHistory) =>
        /\ Read(sessionID).summary # <<>>
        /\ Read(sessionID).messages = Suffix(LogOf(sessionID), 2 * maxHistory)
        /\ sumCalls # <<>>
        /\ sumCalls[Len(sumCalls)].input =
               SubSeq(LogOf(sessionID), 1,
                      2 * (RoundsOf(sessionID) - maxHistory))

\* C3: every message GetHistory no longer returns has been handed to the
\* summarizer before.
Handed(i) ==
    \E k \in DOMAIN sumCalls : sumCalls[k].first <= i /\ i <= sumCalls[k].last

C3_NoSilentDrop ==
    \A i \in DOMAIN LogOf(sessionID) :
        i <= Len(LogOf(sessionID)) - Len(Read(sessionID).messages) => Handed(i)

ShortTermOps == {"GetHistory", "AddMessage"}

C5_ShortTermFailureAborts ==
    \A i, j \in DOMAIN turnSteps :
        (i < j /\ turnSteps[i].op \in ShortTermOps) => turnSteps[i].ok

\* C6: right after a successful ClearHistory(s), and through any reads that
\* follow, GetHistory(s) returns no message and no summary, GetLastAccessTime
\* returns 0, and the three keys are as for a session that never existed.
C6_ClearedIsFresh ==
    cleared.sid # "" =>
        /\ Read(cleared.sid) = [messages |-> <<>>, summary |-> <<>>, err |-> FALSE]
        /\ GetLastAccessTime(cleared.sid, TRUE) = [val |-> 0, err |-> FALSE]
        /\ redisMessages[MessagesKey(cleared.sid)] = <<>>
        /\ redisSummary[SummaryKey(cleared.sid)] = <<>>
        /\ redisAccess[AccessKey(cleared.sid)] = <<>>

\* a ClearHistory has emptied a session that held messages, a summary and
\* an access time
C6_Witness == cleared.sid # "" /\ cleared.full

\* C7: for a log with an odd number of entries GetHistory returns without
\* error and the dangling last message is the last message returned.
C7_OddLength ==
    \A s \in Sessions :
        Len(LogOf(s)) % 2 = 1 =>
            /\ ~Read(s).err
            /\ Read(s).messages # <<>>
            /\ Read(s).messages[Len(Read(s).messages)] = LogOf(s)[Len(LogOf(s))]

\* an odd log that holds more rounds than the window
C7_Witness ==
    \E s \in Sessions :
        /\ Len(LogOf(s)) % 2 = 1
        /\ RoundsOf(s) > maxHistory
        /\ LogOf(s)[Len(LogOf(s))].Role = "user"

\* C8: for a session with more than W rounds the summary GetHistory returns
\* is the text of the last successful SaveSummary since the last clear, and
\* is empty, without error, when there was none.
C8_SummaryIsLastSaved ==
    \A s \in Sessions :
        RoundsOf(s) > maxHistory =>
            /\ ~Read(s).err
            /\ Read(s).summary =
                   IF lastSaved[s] = <<>> THEN <<>> ELSE lastSaved[s][1].text

\* a session with more than W rounds whose summary has replaced an earlier one
C8_Witness ==
    \E s \in Sessions :
        /\ RoundsOf(s) > maxHistory
        /\ lastSaved[s] # <<>>
        /\ lastSaved[s][1].replaced

\* C9: the stored log is the sequence of the successfully added messages
\* since the last clear, each kept once per call and in call order, and
\* the messages GetHistory returns are a suffix of it.
C9_AppendOnly ==
    \A s \in Sessions :
        /\ DecodeAll(redisMessages[MessagesKey(s)]) = LogOf(s)
        /\ Len(redisMessages[MessagesKey(s)]) = Len(LogOf(s))
        /\ IsSuffixOf(Read(s).messages, LogOf(s))

\* a log holding the same message twice and differing messages, longer than
\* what GetHistory returns
C9_Witness ==
    \E s \in Sessions :
        /\ Len(Read(s).messages) < Len(LogOf(s))
        /\ \E i, j \in DOMAIN LogOf(s) : i < j /\ LogOf(s)[i] = LogOf(s)[j]
        /\ \E i, j \in DOMAIN LogOf(s) : LogOf(s)[i] # LogOf(s)[j]

LastStep == turnSteps[Len(turnSteps)]

\* what a step taken before the reply exists may do: write nothing, and
\* after a failed generation go back to the head of the loop without a reply
ReadingStep ==
    pc \in {"getHistory", "retrieve", "generate"} =>
        /\ UNCHANGED <<redisMessages, redisSummary, redisAccess, ltmIndex>>
        /\ (pc = "generate" /\ ~turnSteps'[Len(turnSteps')].ok) =>
               (pc' = "loop" /\ response' = <<>>)

\* C11: from the start of a turn up to and including the generation call
\* nothing is written (message log, summary, access time and long-term index
\* stay as they were), and a failed generation leaves the turn at once,
\* without a reply, back at the head of the loop for the next query.
C11_FailedGenerationWritesNothing == [][ReadingStep]_vars

\* a generation has failed in a session that holds messages and a stored fact
C11_Witness ==
    /\ pc = "loop"
    /\ turnSteps # <<>>
    /\ LastStep.op = "Invoke"
    /\ ~LastStep.ok
    /\ LogOf(sessionID) # <<>>
    /\ ltmIndex # <<>>

\* C12: a failed Retrieve does not end the turn: the long-term context is
\* empty, the turn goes on to the generation call, and the failure is
\* reported (printed) by the loop.
C12_FailedRetrieveDegrades ==
    \A i \in DOMAIN turnSteps :
        (turnSteps[i].op = "Retrieve" /\ ~turnSteps[i].ok) =>
            /\ longTermInfo = <<>>
            /\ turnSteps[i].reported
            /\ (pc = "generate" \/ (i < Len(turnSteps) /\ turnSteps[i + 1].op = "Invoke"))

\* C13: a failed Store is reported and ends the turn normally: the loop is
\* back at its head, the reply exists, the index holds no document of this
\* turn, and the messages appended in the turn are the last entries of the log.
AddedInTurn == { i \in DOMAIN turnSteps : turnSteps[i].op = "AddMessage" /\ turnSteps[i].ok }

C13_FailedStoreKeepsTurn ==
    (pc = "loop" /\ turnSteps # <<>> /\ LastStep.op = "Store" /\ ~LastStep.ok) =>
        /\ LastStep.reported
        /\ response # <<>>
        /\ Len(ltmIndex) <= turn - 1
        /\ Len(LogOf(sessionID)) >= Cardinality(AddedInTurn)
        /\ Cardinality(AddedInTurn) = 2 =>
               Suffix(LogOf(sessionID), 2) =
                   << Message("user", query, LogOf(sessionID)[Len(LogOf(sessionID)) - 1].Time),
                      Message("assistant", response, LogOf(sessionID)[Len(LogOf(sessionID))].Time) >>
        /\ DecodeAll(redisMessages[MessagesKey(sessionID)]) = LogOf(sessionID)

\* a Store has failed at the end of a turn that appended both messages
C13_Witness ==
    /\ pc = "loop"
    /\ turnSteps # <<>>
    /\ LastStep.op = "Store"
    /\ ~LastStep.ok
    /\ Cardinality(AddedInTurn) = 2
    /\ turn < MaxTurns

\* the order of the calls of one turn
TurnOrder ==
    << "GetHistory", "Retrieve", "Invoke", "AddMessage", "AddMessage",
       "GetHistory", "GenerateSummary", "Store" >>

\* the ops of steps, from step i on, occur in this order in order, from j on
RECURSIVE InOrder(_, _, _, _)
InOrder(steps, i, order, j) ==
    IF i > Len(steps) THEN TRUE
    ELSE IF j > Len(order) THEN FALSE
    ELSE IF steps[i].op = order[j] THEN InOrder(steps, i + 1, order, j + 1)
    ELSE InOrder(steps, i, order, j + 1)

\* the log as it was when the turn began, and what GetHistory returned of it
LogAtTurnStart ==
    SubSeq(LogOf(sessionID), 1, Len(LogOf(sessionID)) - Cardinality(AddedInTurn))

WindowOf(log) ==
    IF Len(log) \div 2 <= maxHistory THEN log ELSE Suffix(log, 2 * maxHistory)

StoredInTurn ==
    IF \E i \in DOMAIN turnSteps : turnSteps[i].op = "Store" /\ turnSteps[i].ok
    THEN 1 ELSE 0

\* C14: the calls of a turn occur in the order GetHistory, Retrieve,
\* generation, AddMessage (user), AddMessage (assistant), summarization
\* check, Store; the prompt holds the messages read before the turn wrote
\* any, and the retrieved contents come from documents stored before the
\* turn's own Store.
C14_StepOrder ==
    /\ InOrder(turnSteps, 1, TurnOrder, 1)
    /\ (turnSteps # <<>> /\ turnSteps[1].ok) =>
          /\ turnSteps[1].op = "GetHistory"
          /\ recentMessages = WindowOf(LogAtTurnStart)
          /\ Prompt.short_term_history =
                 ShortTermHistoryOf(summary, WindowOf(LogAtTurnStart))
          /\ Prompt.user_input = query
    /\ Len(longTermInfo) <= Len(ltmIndex) - StoredInTurn

\* a second turn that read the first turn's messages and fact, wrote both
\* of its messages and stored a fact of its own
C14_Witness ==
    /\ pc = "loop"
    /\ [i \in DOMAIN turnSteps |-> turnSteps[i].op] =
           << "GetHistory", "Retrieve", "Invoke", "AddMessage", "AddMessage",
              "GetHistory", "Store" >>
    /\ \A i \in DOMAIN turnSteps : turnSteps[i].ok
    /\ recentMessages # <<>>
    /\ longTermInfo # <<>>
    /\ Len(ltmIndex) = 2

\* a word occurs in a text
HasWord(text, w) == \E i \in DOMAIN text : text[i] = w

\* the query holds one of the recall words "记住", "我的"
RecallCue(q) == HasWord(q, "jizhu") \/ HasWord(q, "wode")

\* the query holds the words "请记住"
PersistCue(q) == \E i \in 1..(Len(q) - 1) : q[i] = "qing" /\ q[i + 1] = "jizhu"

StepsOf(op) == { i \in DOMAIN turnSteps : turnSteps[i].op = op }

\* the turn has read the session's history and has passed step 2
PastRetrieve == turnSteps # <<>> /\ turnSteps[1].ok /\ pc # "retrieve"

\* C18: in a turn that has passed its long-term read step, Retrieve was
\* called (once) exactly when the query holds a recall word; before that step
\* and in every turn without a recall word no Retrieve was made and the
\* long-term part of the prompt is empty.
C18_RetrieveIffCue ==
    /\ Cardinality(StepsOf("Retrieve")) <= 1
    /\ PastRetrieve => (StepsOf("Retrieve") # {} <=> RecallCue(query))
    /\ ~PastRetrieve => StepsOf("Retrieve") = {}
    /\ (~RecallCue(query) \/ StepsOf("Retrieve") = {}) =>
           /\ longTermInfo = <<>>
           /\ Prompt.long_term_memory = <<>>

\* a recall query whose Retrieve returned stored facts, and the prompt holds them
C18_Witness ==
    /\ pc = "generate"
    /\ RecallCue(query)
    /\ StepsOf("Retrieve") # {}
    /\ Prompt.long_term_memory # <<>>

\* the turn has ended after reaching its last step
PastStore ==
    /\ pc = "loop"
    /\ Cardinality(AddedInTurn) = 2

StoreOnlyOnCue ==
    ltmIndex' # ltmIndex =>
        /\ pc = "store"
        /\ PersistCue(query)
        /\ Len(ltmIndex') = Len(ltmIndex) + 1

IndexChangesOnlyOnCue == [][StoreOnlyOnCue]_vars

\* what a step may do to the long-term index: documents already stored stay
\* as they are, a Retrieve and a failed Store leave the index as it is, every
\* document carries the vector of its own content, and what a Retrieve hands
\* back are contents of stored documents
RecordsKept ==
    /\ Len(ltmIndex') >= Len(ltmIndex)
    /\ \A i \in DOMAIN ltmIndex : ltmIndex'[i] = ltmIndex[i]
    /\ pc = "retrieve" => ltmIndex' = ltmIndex
    /\ (pc = "store" /\ turnSteps' # turnSteps
          /\ ~turnSteps'[Len(turnSteps')].ok) => ltmIndex' = ltmIndex
    /\ \A i \in DOMAIN ltmIndex' :
          /\ ltmIndex'[i].Vector = Embed(ltmIndex'[i].Content)
          /\ \A j \in DOMAIN ltmIndex' : ltmIndex'[j].ID = ltmIndex'[i].ID => j = i
    /\ \A k \in DOMAIN longTermInfo' :
          \E i \in DOMAIN ltmIndex' : ltmIndex'[i].Content = longTermInfo'[k]

\* C20: a stored document is never changed by a later Store or Retrieve, a
\* Retrieve returns only documents stored together with their vector, and a
\* failed Store (embedding or write) adds no document.
C20_RecordsImmutable == [][RecordsKept]_vars

\* a turn that retrieved the fact of the turn before and whose own Store failed
C20_Witness ==
    /\ pc = "loop"
    /\ Len(ltmIndex) = 1
    /\ longTermInfo # <<>>
    /\ turnSteps # <<>> /\ LastStep.op = "Store" /\ ~LastStep.ok

\* the step is a successful ClearHistory of session s
ClearStep(s) ==
    /\ cleared'.sid = s
    /\ redisMessages'[MessagesKey(s)] = <<>> /\ redisSummary'[SummaryKey(s)] = <<>> /\ redisAccess'[AccessKey(s)] = <<>>
    /\ appended'[s] = <<>> /\ lastSaved'[s] = <<>>

\* a step that is not a ClearHistory of the session keeps every stored
\* message of the session in its place and keeps a summary once there is one
NothingRemoved ==
    \A s \in Sessions :
        ClearStep(s) \/
            /\ Len(redisMessages'[MessagesKey(s)]) >= Len(redisMessages[MessagesKey(s)])
            /\ SubSeq(redisMessages'[MessagesKey(s)], 1, Len(redisMessages[MessagesKey(s)])) = redisMessages[MessagesKey(s)]
            /\ redisSummary[SummaryKey(s)] # <<>> => redisSummary'[SummaryKey(s)] # <<>>

\* C16: no AddMessage, GetHistory, SaveSummary, UpdateLastAccessTime,
\* GetLastAccessTime or expiry of the access-time key removes a stored
\* message or the summary of a session; only ClearHistory of that session does.
C16_OnlyClearRemoves == [][NothingRemoved]_vars

\* a session that outgrew the window, whose summary was replaced and whose
\* access time is gone without a clear
C16_Witness ==
    \E s \in Sessions :
        /\ Len(redisMessages[MessagesKey(s)]) > 2 * maxHistory
        /\ Len(Read(s).messages) < Len(redisMessages[MessagesKey(s)])
        /\ lastSaved[s] # <<>> /\ lastSaved[s][1].replaced
        /\ redisAccess[AccessKey(s)] = <<>>
        /\ cleared.sid # s

\* a session without a stored access time reads as 0 without error, before and
\* after every step, and a step that changes an access time without being a
\* ClearHistory changes no message and no summary
AccessTimeFrame ==
    /\ \A s \in Sessions :
          /\ redisAccess[AccessKey(s)] = <<>> =>
                 GetLastAccessTime(s, TRUE) = [val |-> 0, err |-> FALSE]
          /\ redisAccess'[AccessKey(s)] = <<>> =>
                 GetLastAccessTime(s, TRUE)' = [val |-> 0, err |-> FALSE]
    /\ \A s \in Sessions :
          (redisAccess'[AccessKey(s)] # redisAccess[AccessKey(s)] /\ ~ClearStep(s)) =>
              /\ redisMessages' = redisMessages
              /\ redisSummary' = redisSummary
              /\ \A o \in Sessions \ {s} : redisAccess'[AccessKey(o)] = redisAccess[AccessKey(o)]

\* C17: GetLastAccessTime gives 0 and no error when the session has no
\* stored access time (never set, cleared or expired); UpdateLastAccessTime
\* and the expiry of the key change the access-time entry only.
C17_AccessTimeOnly == [][AccessTimeFrame]_vars

\* one session with messages, a summary and an access time, another with
\* messages whose access time is absent
C17_Witness ==
    \E s, o \in Sessions :
        /\ s # o
        /\ redisAccess[AccessKey(s)] # <<>> /\ redisMessages[MessagesKey(s)] # <<>> /\ redisSummary[SummaryKey(s)] # <<>>
        /\ redisAccess[AccessKey(o)] = <<>> /\ redisMessages[MessagesKey(o)] # <<>>
        /\ GetLastAccessTime(o, TRUE) = [val |-> 0, err |-> FALSE]
        /\ GetLastAccessTime(s, TRUE).val \in Times

\* the positions of a message in a log
PositionsOf(log, msg) == { i \in DOMAIN log : log[i] = msg }

\* the messages of turn p and whether their AddMessage calls have succeeded
UserMsgOf(p) == Message("user", query[p], 1)
AssistantMsgOf(p) == Message("assistant", response[p], 1)
UserAdded(p) == Len(turnSteps[p]) >= 1 /\ turnSteps[p][1].ok
AssistantAdded(p) == Len(turnSteps[p]) >= 2 /\ turnSteps[p][2].ok

\* C15: with turns of one session running side by side, the log holds every
\* message whose AddMessage succeeded exactly once and no other, in the
\* order in which the pushes were made, and the user message of a turn
\* stands before the assistant message of that turn, also when a turn has
\* stopped after its user message.
C15_ConcurrentAppends ==
    LET log == DecodeAll(redisMessages[MessagesKey(sessionID)])
    IN  /\ log = appended[sessionID]
        /\ Len(log) = Cardinality({ p \in Turns : UserAdded(p) })
                      + Cardinality({ p \in Turns : AssistantAdded(p) })
        /\ \A p \in Turns :
              /\ Cardinality(PositionsOf(log, UserMsgOf(p))) =
                     IF UserAdded(p) THEN 1 ELSE 0
              /\ Cardinality(PositionsOf(log, AssistantMsgOf(p))) =
                     IF AssistantAdded(p) THEN 1 ELSE 0
              /\ \A i \in PositionsOf(log, UserMsgOf(p)),
                    j \in PositionsOf(log, AssistantMsgOf(p)) : i < j

\* two interleaved turns: one stopped after its user message, which stands
\* between the user message and the assistant message of the other
C15_Witness ==
    \E p, o \in Turns :
        /\ p # o
        /\ pc[p] = "stopped"
        /\ pc[o] = "done"
        /\ DecodeAll(redisMessages[MessagesKey(sessionID)]) =
               << UserMsgOf(o), UserMsgOf(p), AssistantMsgOf(o) >>

\* C21: Retrieve on an index without documents, as main leaves it after
\* DropIndex and NewLongTermMemory, returns no document and no error when
\* Elasticsearch is reachable; stated for a turn about to make its Retrieve.
C21_EmptyRetrieve ==
    (pc = "retrieve" /\ RecallCue(query) /\ ltmIndex = <<>>) =>
        \A hits \in RetrieveResults :
            Retrieve(TRUE, hits) = [docs |-> <<>>, err |-> FALSE]

\* C23: whatever scores the search gives the documents, Retrieve returns at
\* most TopK of them, in descending score.
C23_TopKByScore ==
    \A sc \in Scorings :
        LET r == Retrieve(TRUE, SearchHits(sc))
        IN  /\ Len(r.docs) <= TopK
            /\ \A i, j \in DOMAIN r.docs :
                  i < j => ScoreOf(sc, r.docs[i]) >= ScoreOf(sc, r.docs[j])

\* an index of more documents than TopK, of which a search with differing
\* scores returns TopK, the best first and not in the order of writing
C23_Witness ==
    /\ Len(ltmIndex) > TopK
    /\ \E sc \in Scorings :
          LET r == Retrieve(TRUE, SearchHits(sc))
          IN  /\ ~r.err
              /\ Len(r.docs) = TopK
              /\ r.docs[1] = Len(ltmIndex)
              /\ ScoreOf(sc, r.docs[1]) > ScoreOf(sc, r.docs[TopK])

\* a log written by turns, each leaving its user message and then, unless it
\* was interrupted, its assistant message
TurnLog(log) ==
    \A i \in DOMAIN log :
        log[i].Role = "assistant" => (i > 1 /\ log[i - 1].Role = "user")

\* C24: of a log written by complete and interrupted turns that holds more
\* than W rounds, GetHistory returns whole rounds and at most a dangling last
\* user message: the first message returned is the user message of a round.
C24_RoundAligned ==
    \A s \in Sessions :
        (TurnLog(LogOf(s)) /\ RoundsOf(s) > maxHistory) =>
            /\ Read(s).messages # <<>>
            /\ Read(s).messages[1].Role = "user"
            /\ TurnLog(Read(s).messages)

\* what the readers return for a session, and the values under the keys of
\* the session, which are all that GetHistory and GetLastAccessTime read
Observed(s) == <<Read(s), GetLastAccessTime(s, TRUE)>>
StoredFor(s) ==
    <<redisMessages[MessagesKey(s)], redisSummary[SummaryKey(s)],
      redisAccess[AccessKey(s)]>>

\* the step is a successful AddMessage, SaveSummary or ClearHistory of s
Touched(s) ==
    \/ appended'[s] # appended[s]
    \/ lastSaved'[s] # lastSaved[s]
    \/ (cleared' # cleared /\ cleared'.sid = s)

\* a step changes the values read for one session at most, and a step known
\* to act on a session changes them for no other
OtherSessionsKept ==
    { s \in Sessions : StoredFor(s)' # StoredFor(s) } \in
        { changed \in SUBSET Sessions :
            /\ Cardinality(changed) <= 1
            /\ \A s \in Sessions : Touched(s) => changed \subseteq {s} }

\* C25: AddMessage, SaveSummary, ClearHistory and UpdateLastAccessTime on one
\* session leave what GetHistory and GetLastAccessTime return for every
\* other session id as it was.
C25_SessionsIsolated == [][OtherSessionsKept]_vars

\* a session has just been cleared while another holds messages beyond the
\* window, a summary and an access time
C25_Witness ==
    \E s, o \in Sessions :
        /\ s # o
        /\ cleared.sid = o
        /\ RoundsOf(s) > maxHistory
        /\ Read(s).summary # <<>>
        /\ GetLastAccessTime(s, TRUE).val \in Times
        /\ Observed(o) # Observed(s)

\* ------------------------------------------------------------------ C26
\* C26: every Coder execution raises Iteration by exactly one and never
\* above MaxIterations; after a Judge execution the run ends if and only if
\* IsGoalMet is true or Iteration >= MaxIterations, and otherwise Coder runs
\* next with the same code and feedback.
LoopRouting ==
    /\ (goalNode = "Coder" /\ goalNode' # "Coder") =>
          /\ goalState'.Iteration = goalState.Iteration + 1
          /\ goalState'.Iteration <= goalState'.MaxIterations
    /\ (goalNode = "Judge" /\ goalNode' \notin { "Judge", "nodeError" }) =>
          LET ends == \/ goalState'.IsGoalMet
                      \/ goalState'.Iteration >= goalState'.MaxIterations
          IN  /\ ends <=> goalNode' = "END"
              /\ ~ends => /\ goalNode' = "Coder"
                          /\ goalState'.CurrentCode = goalState.CurrentCode
                          /\ goalState'.Feedback = goalState.Feedback

C26_LoopRouting == [][LoopRouting]_vars

\* ------------------------------------------------------------------ C27
\* the history the claim describes: the task, then per iteration the code as
\* an assistant message and, unless the critique stopped the loop, the
\* critique as a user message
RECURSIVE HistoryOf(_, _, _)
HistoryOf(codes, critiques, k) ==
    IF k > Len(codes) THEN <<>>
    ELSE <<[Role |-> "assistant", Content |-> codes[k]]>>
         \o (IF k <= Len(critiques) /\ ~HasWord(critiques[k], "CODE_IS_PERFECT")
             THEN <<[Role |-> "user", Content |-> <<"critique:">> \o critiques[k]]>>
             ELSE <<>>)
         \o HistoryOf(codes, critiques, k + 1)

\* C27: the loop runs at most 3 generate-then-reflect iterations and stops
\* right after the first critique holding CODE_IS_PERFECT; every iteration
\* appends its code as an assistant message, a critique is appended as a user
\* message only when the loop does not stop on it, and the final result is
\* the code of the last iteration executed.
C27_ReflectionLoop ==
    LET n == Len(reflCodes)
        m == Len(reflCritiques)
    IN  /\ n <= 3
        /\ m <= n
        /\ reflState.Iteration <= 3
        /\ \A k \in 1..m :
              HasWord(reflCritiques[k], "CODE_IS_PERFECT") =>
                  k = m /\ reflPc = "done"
        /\ reflPc # "main" =>
              reflState.MessageHistory =
                  <<[Role |-> "user", Content |-> taskPrompt]>>
                  \o HistoryOf(reflCodes, reflCritiques, 1)
        /\ reflPc = "done" =>
              /\ n >= 1
              /\ m = n
              /\ reflState.Iteration = n
              /\ reflState.CurrentCode = reflCodes[n]

\* the loop has stopped on the critique of its second iteration
C27_Witness ==
    /\ reflPc = "done"
    /\ Len(reflCritiques) = 2
    /\ HasWord(reflCritiques[2], "CODE_IS_PERFECT")
    /\ Len(reflState.MessageHistory) = 4

\* ------------------------------------------------------------------ C28
IsPrecise(result) == HasWord(result, "precision")

IsGeneral(result) == HasWord(result, "region_code")

\* C28: FallbackHandler leaves the whole state unchanged when PrimaryHandler
\* succeeded and otherwise sets LocationResult to the general-area info; in
\* a run without a model-call error ResponseAgent runs last and receives a
\* non-empty LocationResult, which is the precise result exactly when
\* PrimaryLocationFailed is false.
FallbackStep ==
    /\ (locNode = "FallbackHandler" /\ locNode' # "FallbackHandler") =>
          IF ~locState.PrimaryLocationFailed
          THEN locState' = locState /\ locNode' = "ResponseAgent"
          ELSE \/ locNode' = "nodeError"
               \/ /\ locNode' = "ResponseAgent"
                  /\ IsGeneral(locState'.LocationResult)
                  /\ locState' = [locState EXCEPT
                                     !.LocationResult = locState'.LocationResult]
    /\ locNode' = "ResponseAgent" =>
          /\ locState'.LocationResult # <<>>
          /\ IsPrecise(locState'.LocationResult) <=>
                 ~locState'.PrimaryLocationFailed
          /\ IsGeneral(locState'.LocationResult) <=>
                 locState'.PrimaryLocationFailed
    /\ (locNode' = "END" /\ locNode # "END") => locNode = "ResponseAgent"

C28_FallbackResult == [][FallbackStep]_vars

\* a run has ended after PrimaryHandler failed and FallbackHandler stepped in
C28_Witness ==
    /\ locNode = "END"
    /\ locState.PrimaryLocationFailed
    /\ IsGeneral(locState.LocationResult)
    /\ locState.FinalResponse # <<>>

\* ------------------------------------------------------------------ C29
\* C29: after any sequence of add, update, complete and list calls every
\* item's status is pending, in_progress or completed, and the item a
\* successful add has just appended is pending.
C29_StatusValues ==
    /\ \A i \in DOMAIN todoItems :
          todoItems[i].Status \in { "pending", "in_progress", "completed" }
    /\ (todoResult.action = "add" /\ ~todoResult.err) =>
          todoItems[Len(todoItems)].Status = "pending"

\* ------------------------------------------------------------------ C30
IDsOf(items) == { items[i].ID : i \in DOMAIN items }

\* C30: update or complete with an id of no item returns an error and leaves
\* every item unchanged; the ids of the items are pairwise distinct, update
\* or complete with an existing id succeeds and changes no item but the one
\* with that id, and list changes nothing.
TodoFrame ==
    LET call == todoResult'
        byID == call.action \in { "update", "complete" }
    IN  /\ \A i, j \in DOMAIN todoItems' :
              todoItems'[i].ID = todoItems'[j].ID => i = j
        /\ (byID /\ call.id \notin IDsOf(todoItems)) =>
              call.err /\ todoItems' = todoItems
        /\ (byID /\ call.id \in IDsOf(todoItems)) =>
              /\ ~call.err
              /\ Len(todoItems') = Len(todoItems)
              /\ \A i \in DOMAIN todoItems :
                    todoItems[i].ID # call.id => todoItems'[i] = todoItems[i]
              /\ call.action = "complete" =>
                    \E i \in DOMAIN todoItems :
                        /\ todoItems[i].ID = call.id
                        /\ todoItems'[i].Status = "completed"
        /\ call.action = "list" => ~call.err /\ todoItems' = todoItems

C30_TodoFrame == [][TodoFrame]_vars

\* the second of two tasks has been completed, the first is still pending
C30_Witness ==
    /\ Len(todoItems) >= 2
    /\ todoResult = [action |-> "complete", id |-> <<"todo", 2>>, err |-> FALSE]
    /\ todoItems[1].Status = "pending"
    /\ todoItems[2].Status = "completed"
====
